---- MODULE Spec2Model ----
\* A model of halfsize.cpp: a TGA file is read, its header inspected, a header
\* with halved dimensions written, the image-ID field copied, every pair of
\* pixel rows reduced to one row by 2x2 averaging, and the trailing bytes copied.
EXTENDS Integers, Sequences, FiniteSets, TLC

----------------------------------------------------------------------------
\* Bounds of the model.

\* Largest image width and height of the files read by the whole program.
MaxW == 3
MaxH == 4
\* Longest trailer (bytes after the pixel data) of those files.
MaxTrailer == 1
\* Number of distinct byte patterns the files are filled with.
NumSeeds == 2
\* Bytes the output device has room for beyond those a complete output needs.
DiskSlack == 1
\* Longest row, in 2x2 blocks, handed to the row reducer on its own.
MaxBlocks == 2

----------------------------------------------------------------------------
\* Basic types and the exit statuses.

\* std::uint8_t and std::uint16_t hold values modulo these.
ByteMod == 256
WordMod == 65536

ok == 0
badInputFile == 4
badOutputFile == 5
badInputFormat == 6
unsupportedInputFormat == 7

\* Header::ColorMapType and Header::ImageType.
none == 0
uncompressedTrueColorImage == 2
uncompressedGrayScaleImage == 3

\* EOF, what fgetc returns when it reads nothing.
EndOfFile == -1

Min(a, b) == IF a < b THEN a ELSE b

\* The value of inHeader before the header is read.
NoHeader ==
    [idLength |-> -1, colorMapType |-> -1, type |-> -1,
     cmOffset |-> -1, cmSize |-> -1, cmBpp |-> -1,
     xOrigin |-> -1, yOrigin |-> -1, width |-> -1, height |-> -1, bpp |-> -1,
     attributeBits |-> -1, reserved |-> -1, direction |-> -1, interleave |-> -1]

----------------------------------------------------------------------------
\* State.

VARIABLES
    pc,             \* the program's position
    exitStatus,     \* the process's exit status, once pc = "exited"
    handles,        \* [in, out]: "none", "open", "fclosed" or "reclaimed" (by exit)
    input,          \* the input file: [hdr, body]; hdr is <<>> when shorter than a header
    inPos,          \* bytes of input.body consumed
    inEof, inErr,   \* the input stream's end-of-file and error indicators
    output,         \* the output file: [hdr, body], and the device's room for body bytes
    outErr,         \* the output stream's error indicator
    inHeader, outHeader,
    numComponents,  \* the template argument of convert<numComponents>
    inRow0, inRow1, outRow,
    i               \* the row-pair loop's counter

vars == <<pc, exitStatus, handles, input, inPos, inEof, inErr, output, outErr,
          inHeader, outHeader, numComponents, inRow0, inRow1, outRow, i>>

----------------------------------------------------------------------------
\* Termination of the process.

\* exit as it would be if the streams still open were left open.
exitLeak(status) ==
    /\ pc' = "exited"
    /\ exitStatus' = status
    /\ UNCHANGED handles

\* std::exit, and the return from main: every stream still open is closed by
\* the C runtime; the program itself never calls fclose.
exit(status) ==
    /\ pc' = "exited"
    /\ exitStatus' = status
    /\ handles' = [h \in DOMAIN handles |->
                      IF handles[h] = "open" THEN "reclaimed" ELSE handles[h]]

fail(status) == exit(status)

----------------------------------------------------------------------------
\* FILE helpers.

\* What fread returns for numObjects objects of size bytes at position pos of a
\* file: the full objects available, none on a device error.
fread(body, pos, size, numObjects, deviceOk) ==
    IF numObjects = 0 THEN 0
    ELSE IF ~deviceOk THEN 0
    ELSE Min(numObjects, (Len(body) - pos) \div size)

\* What fwrite returns for numBytes bytes: all of them, or none when the device
\* fails or has no room left.
fwrite(written, room, numBytes, deviceOk) ==
    IF numBytes = 0 THEN 0
    ELSE IF deviceOk /\ written + numBytes <= room THEN numBytes
    ELSE 0

\* The object of numComponents bytes that starts after offset bytes of body.
objectAt(body, offset, size) == [c \in 1..size |-> body[offset + c]]

----------------------------------------------------------------------------
\* Header.

\* inspect with the checks of attributeBits and reserved in the other order.
inspectSwapped(header) ==
    IF header.colorMapType # none THEN unsupportedInputFormat
    ELSE IF header.cmOffset # 0 THEN badInputFormat
    ELSE IF header.cmSize # 0 THEN badInputFormat
    ELSE IF header.cmBpp # 0 THEN badInputFormat
    ELSE IF ~(header.width > 0) THEN badInputFormat
    ELSE IF ~(header.height > 0) THEN badInputFormat
    ELSE IF ~(header.bpp >= 8) THEN unsupportedInputFormat
    ELSE IF ~(header.bpp <= 32) THEN unsupportedInputFormat
    ELSE IF header.bpp % 8 # 0 THEN unsupportedInputFormat
    ELSE IF header.reserved # 0 THEN badInputFormat
    ELSE IF ~(header.attributeBits = 0 \/ header.attributeBits = 8)
         THEN unsupportedInputFormat
    ELSE IF header.interleave # 0 THEN unsupportedInputFormat
    ELSE ok

\* inspect without the check of interleave.
inspectNoInterleave(header) ==
    IF header.colorMapType # none THEN unsupportedInputFormat
    ELSE IF header.cmOffset # 0 THEN badInputFormat
    ELSE IF header.cmSize # 0 THEN badInputFormat
    ELSE IF header.cmBpp # 0 THEN badInputFormat
    ELSE IF ~(header.width > 0) THEN badInputFormat
    ELSE IF ~(header.height > 0) THEN badInputFormat
    ELSE IF ~(header.bpp >= 8) THEN unsupportedInputFormat
    ELSE IF ~(header.bpp <= 32) THEN unsupportedInputFormat
    ELSE IF header.bpp % 8 # 0 THEN unsupportedInputFormat
    ELSE IF ~(header.attributeBits = 0 \/ header.attributeBits = 8)
         THEN unsupportedInputFormat
    ELSE IF header.reserved # 0 THEN badInputFormat
    ELSE ok

\* scrutinize header for errors and compatability with converter: the status
\* of the first enforce that fails, ok when none does.
inspect(header) ==
    IF header.colorMapType # none THEN unsupportedInputFormat
    ELSE IF header.cmOffset # 0 THEN badInputFormat
    ELSE IF header.cmSize # 0 THEN badInputFormat
    ELSE IF header.cmBpp # 0 THEN badInputFormat
    ELSE IF ~(header.width > 0) THEN badInputFormat
    ELSE IF ~(header.height > 0) THEN badInputFormat
    ELSE IF ~(header.bpp >= 8) THEN unsupportedInputFormat
    ELSE IF ~(header.bpp <= 32) THEN unsupportedInputFormat
    ELSE IF header.bpp % 8 # 0 THEN unsupportedInputFormat
    ELSE IF ~(header.attributeBits = 0 \/ header.attributeBits = 8)
         THEN unsupportedInputFormat
    ELSE IF header.reserved # 0 THEN badInputFormat
    ELSE IF header.interleave # 0 THEN unsupportedInputFormat
    ELSE ok

\* halvedHeader as it would be if width + 1 and height + 1 were computed in a Word.
halvedHeaderWord(header) ==
    [header EXCEPT
        !.xOrigin = (header.xOrigin \div 2) % WordMod,
        !.yOrigin = (header.yOrigin \div 2) % WordMod,
        !.height = ((header.height + 1) % WordMod) \div 2,
        !.width = ((header.width + 1) % WordMod) \div 2]

\* The output header: a copy with origin and size halved. The operands are
\* promoted to int, and the result is stored in a Word.
halvedHeader(header) ==
    [header EXCEPT
        !.xOrigin = (header.xOrigin \div 2) % WordMod,
        !.yOrigin = (header.yOrigin \div 2) % WordMod,
        !.height = ((header.height + 1) \div 2) % WordMod,
        !.width = ((header.width + 1) \div 2) % WordMod]

\* The switch on bpp: the number of components, 0 for the default case.
componentsOf(bpp) ==
    IF bpp = 8 THEN 1
    ELSE IF bpp = 16 THEN 2
    ELSE IF bpp = 24 THEN 3
    ELSE IF bpp = 32 THEN 4
    ELSE 0

\* The image type each case of the switch enforces.
requiredType(bpp) ==
    IF bpp = 8 \/ bpp = 16 THEN uncompressedGrayScaleImage
    ELSE uncompressedTrueColorImage

----------------------------------------------------------------------------
\* Rows.

\* Row(numElements): value-initialised pixels.
Row(numElements, size) == [k \in 1..numElements |-> [c \in 1..size |-> 0]]

\* readRow without the assignment to row.back().
readRowNoPad(body, pos, row, inWidth, size) ==
    [k \in 1..Len(row) |->
        IF k <= inWidth THEN objectAt(body, pos + (k - 1) * size, size) ELSE row[k]]

\* readRow once readObjects has succeeded: inWidth pixels read into the front
\* of the row, then row.back() = row[inWidth - 1].
readRow(body, pos, row, inWidth, size) ==
    LET filled == [k \in 1..Len(row) |->
                      IF k <= inWidth
                      THEN objectAt(body, pos + (k - 1) * size, size)
                      ELSE row[k]]
    IN  [filled EXCEPT ![Len(row)] = filled[inWidth]]

\* accumulate as it would be with an accumulator of Bytes.
accumulateByte(accumulator, pixel) ==
    [c \in DOMAIN accumulator |-> (accumulator[c] + pixel[c]) % ByteMod]

\* accumulate: each component added to its Word of the accumulator.
accumulate(accumulator, pixel) ==
    [c \in DOMAIN accumulator |-> (accumulator[c] + pixel[c]) % WordMod]

\* One pass of the reducer's loop: the output pixel for the two pixels at
\* it and it + 1 (counted from 0) of each input row.
outPixelAt(inRows0, inRows1, it) ==
    LET size == Len(inRows0[1])
        accumulatedUnit == 4
        accumulatedHalf == accumulatedUnit \div 2
        a0 == [c \in 1..size |-> accumulatedHalf]
        a1 == accumulate(a0, inRows0[it + 1])
        a2 == accumulate(a1, inRows0[it + 2])
        a3 == accumulate(a2, inRows1[it + 1])
        a4 == accumulate(a3, inRows1[it + 2])
    IN  [c \in 1..size |-> (a4[c] \div 4) % ByteMod]

RECURSIVE convertLoop(_, _, _, _)
convertLoop(inRows0, inRows1, out, it) ==
    IF it = Len(inRows0) THEN out
    ELSE convertLoop(inRows0, inRows1,
                     [out EXCEPT ![(it \div 2) + 1] = outPixelAt(inRows0, inRows1, it)],
                     it + 2)

\* convert(inRows0, inRows1, outRow): the row reducer.
convert(inRows0, inRows1, out) == convertLoop(inRows0, inRows1, out, 0)

\* The bytes writeRow writes: the row's pixels, one after the other.
RECURSIVE rowBytes(_)
rowBytes(row) ==
    IF row = <<>> THEN <<>> ELSE Head(row) \o rowBytes(Tail(row))

----------------------------------------------------------------------------
\* The steps of the program. Each deviceOk is the outcome of one read or write
\* on the device: a read that fails for another reason than the end of the
\* file, a write that fails.

goto(label) == pc' = label /\ UNCHANGED <<exitStatus, handles>>

inStream == <<inPos, inEof, inErr>>
outStream == <<output, outErr>>
headers == <<inHeader, outHeader>>
rows == <<numComponents, inRow0, inRow1, outRow, i>>

\* Whether readObjects reads all of numObjects objects of size bytes.
readOk(size, numObjects, deviceOk) ==
    fread(input.body, inPos, size, numObjects, deviceOk) = numObjects

\* The input stream after readObjects: a short read stops at the end of the
\* file and sets the end-of-file indicator, a device error the error indicator.
readObjects(size, numObjects, deviceOk) ==
    IF readOk(size, numObjects, deviceOk)
    THEN inPos' = inPos + size * numObjects /\ UNCHANGED <<inEof, inErr>>
    ELSE /\ inPos' = IF deviceOk THEN Len(input.body) ELSE inPos
         /\ inEof' = (inEof \/ deviceOk)
         /\ inErr' = (inErr \/ ~deviceOk)

writeOk(bytes, deviceOk) ==
    fwrite(Len(output.body), output.room, Len(bytes), deviceOk) = Len(bytes)

\* The output stream after writeObjects.
writeObjects(bytes, deviceOk) ==
    IF writeOk(bytes, deviceOk)
    THEN output' = [output EXCEPT !.body = @ \o bytes] /\ UNCHANGED outErr
    ELSE outErr' = (outErr \/ Len(bytes) > 0) /\ UNCHANGED output

\* convert(inFilename, outFilename): fopen of the input.
OpenIn ==
    /\ pc = "openIn"
    /\ \E opened \in BOOLEAN :
          IF opened
          THEN /\ pc' = "openOut"
               /\ handles' = [handles EXCEPT !.in = "open"]
               /\ UNCHANGED exitStatus
          ELSE fail(badInputFile)
    /\ UNCHANGED <<input, inStream, outStream, headers, rows>>

\* fopen of the output.
OpenOut ==
    /\ pc = "openOut"
    /\ \E opened \in BOOLEAN :
          IF opened
          THEN /\ pc' = "readHeader"
               /\ handles' = [handles EXCEPT !.out = "open"]
               /\ UNCHANGED exitStatus
          ELSE fail(badOutputFile)
    /\ UNCHANGED <<input, inStream, outStream, headers, rows>>

\* convert(inFile, outFile): readObject<Header>.
ReadHeader ==
    /\ pc = "readHeader"
    /\ \E deviceOk \in BOOLEAN :
          IF deviceOk /\ input.hdr # <<>>
          THEN /\ inHeader' = input.hdr[1]
               /\ goto("inspect")
               /\ UNCHANGED <<inEof, inErr>>
          ELSE /\ fail(badInputFormat)
               /\ inEof' = (inEof \/ deviceOk)
               /\ inErr' = (inErr \/ ~deviceOk)
               /\ UNCHANGED inHeader
    /\ UNCHANGED <<input, inPos, outStream, outHeader, rows>>

Inspect ==
    /\ pc = "inspect"
    /\ IF inspect(inHeader) = ok
       THEN goto("writeHeader")
       ELSE fail(inspect(inHeader))
    /\ UNCHANGED <<input, inStream, outStream, headers, rows>>

\* The output header is derived and written.
WriteHeader ==
    /\ pc = "writeHeader"
    /\ outHeader' = halvedHeader(inHeader)
    /\ \E deviceOk \in BOOLEAN :
          IF deviceOk
          THEN /\ output' = [output EXCEPT !.hdr = <<halvedHeader(inHeader)>>]
               /\ goto("copyId")
               /\ UNCHANGED outErr
          ELSE /\ fail(badOutputFile)
               /\ outErr' = TRUE
               /\ UNCHANGED output
    /\ UNCHANGED <<input, inStream, inHeader, rows>>

\* The ID field is read and written.
CopyId ==
    /\ pc = "copyId"
    /\ \E rdOk \in BOOLEAN, wrOk \in BOOLEAN :
          LET idLength == inHeader.idLength
              idField == SubSeq(input.body, inPos + 1, inPos + idLength)
          IN  /\ readObjects(1, idLength, rdOk)
              /\ IF ~readOk(1, idLength, rdOk)
                 THEN fail(badInputFormat) /\ UNCHANGED outStream
                 ELSE /\ writeObjects(idField, wrOk)
                      /\ IF writeOk(idField, wrOk)
                         THEN goto("dispatch")
                         ELSE fail(badOutputFile)
    /\ UNCHANGED <<input, headers, rows>>

\* The switch on bpp, up to the call of convert<numComponents>.
Dispatch ==
    /\ pc = "dispatch"
    /\ IF componentsOf(inHeader.bpp) = 0
       THEN fail(unsupportedInputFormat) /\ UNCHANGED numComponents
       ELSE IF inHeader.type # requiredType(inHeader.bpp)
       THEN fail(unsupportedInputFormat) /\ UNCHANGED numComponents
       ELSE numComponents' = componentsOf(inHeader.bpp) /\ goto("allocRows")
    /\ UNCHANGED <<input, inStream, outStream, headers, inRow0, inRow1, outRow, i>>

inWidthRup(width) == (width + 1) - ((width + 1) % 2)
outColumnsRup(width) == (width + 1) \div 2
outRowsComplete(height) == height \div 2

\* convert<numComponents>: the rows are allocated.
AllocRows ==
    /\ pc = "allocRows"
    /\ inRow0' = Row(inWidthRup(inHeader.width), numComponents)
    /\ inRow1' = Row(inWidthRup(inHeader.width), numComponents)
    /\ outRow' = Row(outColumnsRup(inHeader.width), numComponents)
    /\ i' = outRowsComplete(inHeader.height)
    /\ goto("loop")
    /\ UNCHANGED <<input, inStream, outStream, headers, numComponents>>

\* The loop's test and, in the loop, readRow into inRow0.
RowLoop ==
    /\ pc = "loop"
    /\ IF i # 0
       THEN \E deviceOk \in BOOLEAN :
               /\ readObjects(numComponents, inHeader.width, deviceOk)
               /\ IF readOk(numComponents, inHeader.width, deviceOk)
                  THEN /\ inRow0' = readRow(input.body, inPos, inRow0,
                                            inHeader.width, numComponents)
                       /\ goto("read1")
                  ELSE fail(badInputFormat) /\ UNCHANGED inRow0
       ELSE /\ goto(IF inHeader.height % 2 = 1 THEN "oddRead" ELSE "trailer")
            /\ UNCHANGED <<inStream, inRow0>>
    /\ UNCHANGED <<input, outStream, headers, numComponents, inRow1, outRow, i>>

\* readRow into inRow1.
ReadRow1 ==
    /\ pc = "read1"
    /\ \E deviceOk \in BOOLEAN :
          /\ readObjects(numComponents, inHeader.width, deviceOk)
          /\ IF readOk(numComponents, inHeader.width, deviceOk)
             THEN /\ inRow1' = readRow(input.body, inPos, inRow1,
                                       inHeader.width, numComponents)
                  /\ goto("convert")
             ELSE fail(badInputFormat) /\ UNCHANGED inRow1
    /\ UNCHANGED <<input, outStream, headers, numComponents, inRow0, outRow, i>>

ConvertPair ==
    /\ pc = "convert"
    /\ outRow' = convert(inRow0, inRow1, outRow)
    /\ goto("write")
    /\ UNCHANGED <<input, inStream, outStream, headers, numComponents, inRow0, inRow1, i>>

\* writeRow, and the loop's --i.
WriteRow ==
    /\ pc = "write"
    /\ \E deviceOk \in BOOLEAN :
          /\ writeObjects(rowBytes(outRow), deviceOk)
          /\ IF writeOk(rowBytes(outRow), deviceOk)
             THEN i' = i - 1 /\ goto("loop")
             ELSE fail(badOutputFile) /\ UNCHANGED i
    /\ UNCHANGED <<input, inStream, headers, numComponents, inRow0, inRow1, outRow>>

\* The outstanding odd row: readRow into inRow0.
ReadOddRow ==
    /\ pc = "oddRead"
    /\ \E deviceOk \in BOOLEAN :
          /\ readObjects(numComponents, inHeader.width, deviceOk)
          /\ IF readOk(numComponents, inHeader.width, deviceOk)
             THEN /\ inRow0' = readRow(input.body, inPos, inRow0,
                                       inHeader.width, numComponents)
                  /\ goto("oddConvert")
             ELSE fail(badInputFormat) /\ UNCHANGED inRow0
    /\ UNCHANGED <<input, outStream, headers, numComponents, inRow1, outRow, i>>

\* ConvertOdd as it would be if the odd row were paired with inRow1.
ConvertOddStale ==
    /\ pc = "oddConvert"
    /\ outRow' = convert(inRow0, inRow1, outRow)
    /\ goto("oddWrite")
    /\ UNCHANGED <<input, inStream, outStream, headers, numComponents, inRow0, inRow1, i>>

\* The odd row is reduced against itself.
ConvertOdd ==
    /\ pc = "oddConvert"
    /\ outRow' = convert(inRow0, inRow0, outRow)
    /\ goto("oddWrite")
    /\ UNCHANGED <<input, inStream, outStream, headers, numComponents, inRow0, inRow1, i>>

WriteOddRow ==
    /\ pc = "oddWrite"
    /\ \E deviceOk \in BOOLEAN :
          /\ writeObjects(rowBytes(outRow), deviceOk)
          /\ IF writeOk(rowBytes(outRow), deviceOk)
             THEN goto("trailer")
             ELSE fail(badOutputFile)
    /\ UNCHANGED <<input, inStream, headers, rows>>

\* while (!feof(inFile)); after the loop the program returns from main.
TrailerTest ==
    /\ pc = "trailer"
    /\ IF ~inEof THEN goto("copyByte") ELSE exit(ok)
    /\ UNCHANGED <<input, inStream, outStream, headers, rows>>

\* What fgetc returns: the next byte; EOF at the end of the file or on a
\* device error.
fgetc(deviceOk) ==
    IF deviceOk /\ inPos < Len(input.body) THEN input.body[inPos + 1] ELSE EndOfFile

\* fputc(fgetc(inFile), outFile): the value is written as an unsigned char,
\* and what fputc returns is not looked at.
CopyByte ==
    /\ pc = "copyByte"
    /\ \E rdOk \in BOOLEAN, wrOk \in BOOLEAN :
          /\ IF fgetc(rdOk) # EndOfFile
             THEN inPos' = inPos + 1 /\ UNCHANGED <<inEof, inErr>>
             ELSE /\ inEof' = (inEof \/ rdOk)
                  /\ inErr' = (inErr \/ ~rdOk)
                  /\ UNCHANGED inPos
          /\ writeObjects(<<fgetc(rdOk) % ByteMod>>, wrOk)
    /\ goto("trailer")
    /\ UNCHANGED <<input, headers, rows>>

----------------------------------------------------------------------------
\* The files read and the initial states.

\* A header that inspect accepts, with the given fields.
Header(idLength, type, bpp, width, height) ==
    [idLength |-> idLength, colorMapType |-> none, type |-> type,
     cmOffset |-> 0, cmSize |-> 0, cmBpp |-> 0,
     xOrigin |-> 0, yOrigin |-> 0, width |-> width, height |-> height, bpp |-> bpp,
     attributeBits |-> 0, reserved |-> 0, direction |-> 0, interleave |-> 0]

\* n bytes of pattern seed.
Gen(seed, n) == [k \in 1..n |-> (seed * 101 + k * 59 + seed * k * k * 7) % ByteMod]

\* The bytes of the ID field and the pixel data a header announces.
PixelEnd(header) ==
    header.idLength + header.width * header.height * componentsOf(header.bpp)

\* The bytes of a complete output after its header, for a trailer of t bytes.
OutputEnd(header, t) ==
    header.idLength
    + outColumnsRup(header.width) * ((header.height + 1) \div 2) * componentsOf(header.bpp)
    + t

File(header, body, room) ==
    [in |-> [hdr |-> <<header>>, body |-> body],
     out |-> [hdr |-> <<>>, body |-> <<>>, room |-> room]]

\* The files the whole program is run on: every image type and depth, widths
\* and heights up to the bounds (and width 0), a colour-mapped header, a depth
\* that is no multiple of 8; after the header, the pixel data cut one byte
\* short, complete, or followed by a trailer. The last file is shorter than a
\* header.
PipelineHeaders ==
    { Header(id, t, b, w, h) :
        id \in {0, 2},
        t \in {uncompressedTrueColorImage, uncompressedGrayScaleImage},
        b \in {8, 16, 24, 32}, w \in 0..MaxW, h \in 1..MaxH }
    \cup { [Header(0, uncompressedGrayScaleImage, 8, 2, 2) EXCEPT !.colorMapType = 1],
           Header(0, uncompressedGrayScaleImage, 12, 2, 2) }

PipelineFiles ==
    { File(hd, Gen(seed, PixelEnd(hd) + t), OutputEnd(hd, t) + 1 + DiskSlack) :
        hd \in PipelineHeaders, seed \in 1..NumSeeds, t \in (-1)..MaxTrailer }
    \cup { [in |-> [hdr |-> <<>>, body |-> <<>>],
            out |-> [hdr |-> <<>>, body |-> <<>>, room |-> DiskSlack]] }

\* The state in which convert(inFilename, outFilename) is entered for a file.
Start(file) ==
    /\ pc = "openIn"
    /\ exitStatus = -1
    /\ handles = [in |-> "none", out |-> "none"]
    /\ input = file.in
    /\ inPos = 0
    /\ inEof = FALSE
    /\ inErr = FALSE
    /\ output = file.out
    /\ outErr = FALSE
    /\ inHeader = NoHeader
    /\ outHeader = NoHeader
    /\ numComponents = 0
    /\ inRow0 = <<>>
    /\ inRow1 = <<>>
    /\ outRow = <<>>
    /\ i = 0

Init == \E file \in PipelineFiles : Start(file)

Next ==
    \/ OpenIn \/ OpenOut \/ ReadHeader \/ Inspect \/ WriteHeader \/ CopyId
    \/ Dispatch \/ AllocRows \/ RowLoop \/ ReadRow1 \/ ConvertPair \/ WriteRow
    \/ ReadOddRow \/ ConvertOdd \/ WriteOddRow \/ TrailerTest \/ CopyByte

\* The whole program.
Spec == Init /\ [][Next]_vars

\* The program is one thread that always takes its next step.
FairSpec == Spec /\ WF_vars(Next)

----------------------------------------------------------------------------
\* The program up to the call of convert<numComponents>, on a wider set of
\* headers.

\* Headers in which every field inspect looks at is either good or bad.
LatticeHeaders ==
    [idLength : {0}, colorMapType : {none, 1},
     type : {uncompressedTrueColorImage, uncompressedGrayScaleImage},
     cmOffset : {0, 1}, cmSize : {0, 256}, cmBpp : {0, 24},
     xOrigin : {0}, yOrigin : {0}, width : {0, 2}, height : {0, 2},
     bpp : {7, 8, 12, 24, 40}, attributeBits : {0, 5, 8}, reserved : {0, 1},
     direction : {0}, interleave : {0, 2}]

\* Headers inspect accepts, over the range of the 16-bit fields and with every
\* pairing of image type and depth (1 is a colour-mapped image type).
WideHeaders ==
    [idLength : {0, 2, 3}, colorMapType : {none},
     type : {1, uncompressedTrueColorImage, uncompressedGrayScaleImage},
     cmOffset : {0}, cmSize : {0}, cmBpp : {0},
     xOrigin : {0, 1, 65535}, yOrigin : {0, 2, 65534},
     width : {1, 2, 3, 65534, 65535}, height : {1, 2, 65535},
     bpp : {8, 16, 24, 32}, attributeBits : {0, 8}, reserved : {0},
     direction : {0, 1}, interleave : {0}]

\* Each header is followed by two bytes: an ID field of 3 bytes is cut short.
HeaderFiles ==
    { File(hd, Gen(1, 2), 2 + DiskSlack) : hd \in LatticeHeaders \cup WideHeaders }

InitHeader == \E file \in HeaderFiles : Start(file)

NextHeader ==
    \/ OpenIn \/ OpenOut \/ ReadHeader \/ Inspect \/ WriteHeader \/ CopyId
    \/ Dispatch

SpecHeader == InitHeader /\ [][NextHeader]_vars

----------------------------------------------------------------------------
\* The row reducer on its own: the program at the call of convert on two rows.

ByteSamples == {0, 1, 2, 3, 127, 128, 254, 255}

\* Two pixels of size components, all of whose components differ.
PixelSamples(size) ==
    { [c \in 1..size |-> <<1, 2, 253, 255>>[c]],
      [c \in 1..size |-> <<2, 255, 0, 254>>[c]] }

\* Pairs of rows: one 2x2 block of one component over ByteSamples, and rows
\* of up to MaxBlocks blocks of 1 to 4 components over PixelSamples.
RowPairs ==
    { <<r0, r1>> : r0 \in [1..2 -> [1..1 -> ByteSamples]],
                   r1 \in [1..2 -> [1..1 -> ByteSamples]] }
    \cup UNION { UNION { { <<r0, r1>> : r0 \in [1..(2 * b) -> PixelSamples(n)],
                                        r1 \in [1..(2 * b) -> PixelSamples(n)] } :
                         b \in 1..MaxBlocks } :
                 n \in 1..4 }

InitReduce ==
    \E p \in RowPairs :
        LET size == Len(p[1][1])
            hd == Header(0, requiredType(8 * size), 8 * size, Len(p[1]), 2)
        IN  /\ pc = "convert"
            /\ exitStatus = -1
            /\ handles = [in |-> "open", out |-> "open"]
            /\ input = [hdr |-> <<hd>>, body |-> rowBytes(p[1]) \o rowBytes(p[2])]
            /\ inPos = Len(input.body)
            /\ inEof = FALSE
            /\ inErr = FALSE
            /\ output = [hdr |-> <<halvedHeader(hd)>>, body |-> <<>>,
                         room |-> Len(input.body)]
            /\ outErr = FALSE
            /\ inHeader = hd
            /\ outHeader = halvedHeader(hd)
            /\ numComponents = size
            /\ inRow0 = p[1]
            /\ inRow1 = p[2]
            /\ outRow = Row(Len(p[1]) \div 2, size)
            /\ i = 1

SpecReduce == InitReduce /\ [][ConvertPair]_vars

----------------------------------------------------------------------------
\* Properties of the row reducer.

\* C1: for two input rows of the same even length L and 1 to 4 components, the
\* row reducer leaves an output row of length L/2 in which component c of
\* pixel k is (the four components c of the 2x2 block k, plus 2) >> 2, a value
\* in 0..255.
ReducerAveragesBlocks ==
    pc = "write" =>
        /\ 2 * Len(outRow) = Len(inRow0)
        /\ \A k \in 1..Len(outRow) :
              /\ Len(outRow[k]) = numComponents
              /\ \A c \in 1..numComponents :
                    /\ outRow[k][c] = (inRow0[2 * k - 1][c] + inRow0[2 * k][c]
                                       + inRow1[2 * k - 1][c] + inRow1[2 * k][c] + 2) \div 4
                    /\ outRow[k][c] \in 0..255

\* A block of four components 255, whose sum with the bias does not fit a
\* byte, has been reduced to 255.
ReducerWitness ==
    /\ pc = "write"
    /\ inRow0 = << <<255>>, <<255>> >>
    /\ inRow1 = << <<255>>, <<255>> >>
    /\ outRow = << <<255>> >>

----------------------------------------------------------------------------
\* Properties of the header.

IsCeilHalf(m, n) == 2 * m >= n /\ 2 * m <= n + 1
IsFloorHalf(m, n) == 2 * m <= n /\ n <= 2 * m + 1

\* C2: the header written to the output has the input's width and height
\* halved rounding up, its origin halved rounding down, all four within 16
\* bits, and every other field of the input header.
OutputHeaderHalved ==
    output.hdr # <<>> =>
        LET o == output.hdr[1]
            h == input.hdr[1]
        IN  /\ IsCeilHalf(o.width, h.width) /\ o.width \in 0..65535
            /\ IsCeilHalf(o.height, h.height) /\ o.height \in 0..65535
            /\ IsFloorHalf(o.xOrigin, h.xOrigin)
            /\ IsFloorHalf(o.yOrigin, h.yOrigin)
            /\ \A f \in DOMAIN h \ {"width", "height", "xOrigin", "yOrigin"} :
                  o[f] = h[f]

\* A header of the largest width and height has been written.
OutputHeaderWitness ==
    /\ output.hdr # <<>>
    /\ inHeader.width = 65535 /\ inHeader.height = 65535
    /\ inHeader.xOrigin = 65535
    /\ output.hdr[1].width = 32768 /\ output.hdr[1].height = 32768
    /\ output.hdr[1].xOrigin = 32767

\* The error kind the ordered list of invariants gives the checks made before
\* the type/depth match.
EarlyKind(h) ==
    CASE h.colorMapType # 0 -> 7
      [] h.cmOffset # 0 -> 6
      [] h.cmSize # 0 -> 6
      [] h.cmBpp # 0 -> 6
      [] h.width = 0 -> 6
      [] h.height = 0 -> 6
      [] h.bpp < 8 \/ h.bpp > 32 -> 7
      [] h.bpp % 8 # 0 -> 7
      [] h.attributeBits \notin {0, 8} -> 7
      [] h.reserved # 0 -> 6
      [] h.interleave # 0 -> 7
      [] OTHER -> 0

\* Depths 8 and 16 go with grayscale (3), 24 and 32 with true-color (2).
TypeMatchesDepth(h) ==
    \/ h.bpp \in {8, 16} /\ h.type = 3
    \/ h.bpp \in {24, 32} /\ h.type = 2

ClaimedKind(h) ==
    IF EarlyKind(h) # 0 THEN EarlyKind(h)
    ELSE IF ~TypeMatchesDepth(h) THEN 7
    ELSE 0

\* No read and no write has failed.
NoIoFailure == ~inEof /\ ~inErr /\ ~outErr

\* C4: a run that ends after the header was read, with no read or write
\* failed, ends with the error kind of the first invariant the header
\* violates, in the order colorMapType, colour-map offset, size, bpp, width,
\* height, depth range, depth multiple of 8, attributeBits, reserved,
\* interleave, type/depth match; and only a header violating none reaches the
\* pixel pipeline.
ValidationFirstViolation ==
    /\ (pc = "exited" /\ inHeader # NoHeader /\ NoIoFailure) =>
          exitStatus = ClaimedKind(inHeader)
    /\ pc = "allocRows" => ClaimedKind(inHeader) = 0

\* A header with bad attributeBits (unsupported) and a bad reserved bit
\* (malformed) has been refused as unsupported.
ValidationWitness ==
    /\ pc = "exited" /\ NoIoFailure
    /\ inHeader # NoHeader
    /\ inHeader.colorMapType = 0 /\ inHeader.cmOffset = 0 /\ inHeader.cmSize = 0
    /\ inHeader.cmBpp = 0 /\ inHeader.width > 0 /\ inHeader.height > 0
    /\ inHeader.bpp = 24
    /\ inHeader.attributeBits = 5 /\ inHeader.reserved = 1
    /\ exitStatus = 7

\* C5 as stated: a run whose header violates any invariant, the type/depth
\* match included, ends with nothing written to the output.
NothingWrittenForBadHeader ==
    (pc = "exited" /\ inHeader # NoHeader /\ ClaimedKind(inHeader) # 0) =>
        output.hdr = <<>> /\ output.body = <<>>

\* C5: every invariant but the type/depth match is checked before anything
\* is written: a header violating one of them is refused with the output
\* empty. The type/depth match is checked after the output header and the ID
\* field were written: a run refused for it alone has written both.
InspectedBeforeOutput ==
    /\ (inHeader # NoHeader /\ EarlyKind(inHeader) # 0) =>
          /\ output.hdr = <<>> /\ output.body = <<>>
          /\ pc \in {"inspect", "exited"}
          /\ pc = "exited" => exitStatus = EarlyKind(inHeader)
    /\ (pc = "exited" /\ inHeader # NoHeader /\ NoIoFailure
        /\ EarlyKind(inHeader) = 0 /\ ~TypeMatchesDepth(inHeader)) =>
          /\ exitStatus = 7
          /\ output.hdr # <<>>
          /\ output.body = SubSeq(input.body, 1, inHeader.idLength)

\* A 24-bit grayscale header with an ID field of 2 bytes has been refused
\* after the header and the ID field were written.
InspectedBeforeOutputWitness ==
    /\ pc = "exited" /\ exitStatus = 7
    /\ inHeader # NoHeader /\ EarlyKind(inHeader) = 0
    /\ inHeader.bpp = 24 /\ inHeader.type = 3 /\ inHeader.idLength = 2
    /\ output.hdr # <<>> /\ Len(output.body) = 2

----------------------------------------------------------------------------
\* Properties of the pixel pipeline, stated on the bytes of the input file.

\* Component c of the pixel in row r, column col of the input image (rows and
\* columns counted from 0).
InPixel(r, col, c) ==
    input.body[inHeader.idLength + (r * inHeader.width + col) * numComponents + c]

\* The same in a row whose last column is repeated once.
PaddedPixel(r, col, c) ==
    InPixel(r, IF col < inHeader.width THEN col ELSE inHeader.width - 1, c)

\* Component c of pixel k of output row j: the 2x2 average of rows 2j and
\* 2j + 1, and for the last row of an odd height the average of the pair of
\* pixels of that row.
ExpectedComponent(j, k, c) ==
    IF j < inHeader.height \div 2
    THEN (PaddedPixel(2 * j, 2 * k, c) + PaddedPixel(2 * j, 2 * k + 1, c)
          + PaddedPixel(2 * j + 1, 2 * k, c) + PaddedPixel(2 * j + 1, 2 * k + 1, c)
          + 2) \div 4
    ELSE (2 * (PaddedPixel(inHeader.height - 1, 2 * k, c)
               + PaddedPixel(inHeader.height - 1, 2 * k + 1, c)) + 2) \div 4

OutColumns == (inHeader.width + 1) \div 2
OutRows == (inHeader.height + 1) \div 2

\* The bytes of the first n output rows.
ExpectedRows(n) ==
    [m \in 1..(n * OutColumns * numComponents) |->
        ExpectedComponent(((m - 1) \div numComponents) \div OutColumns,
                          ((m - 1) \div numComponents) % OutColumns,
                          ((m - 1) % numComponents) + 1)]

IdField == SubSeq(input.body, 1, inHeader.idLength)

\* Output rows written and input rows read at each position of the pipeline.
RowsWritten ==
    CASE pc \in {"loop", "read1", "convert", "write"} -> inHeader.height \div 2 - i
      [] pc \in {"oddRead", "oddConvert", "oddWrite"} -> inHeader.height \div 2
      [] OTHER -> OutRows

RowsRead ==
    CASE pc = "loop" -> 2 * (inHeader.height \div 2 - i)
      [] pc = "read1" -> 2 * (inHeader.height \div 2 - i) + 1
      [] pc \in {"convert", "write"} -> 2 * (inHeader.height \div 2 - i) + 2
      [] pc = "oddRead" -> 2 * (inHeader.height \div 2)
      [] OTHER -> inHeader.height

\* The pixel data has just been processed: the trailer copy has read nothing.
PixelsDone ==
    pc = "trailer" /\ inPos = PixelEnd(inHeader) /\ ~inEof /\ ~inErr

\* C6: the pipeline writes the ceil(H/2) output rows in order, row j reduced
\* from input rows 2j and 2j + 1, and the last row of an odd height from row
\* H - 1 alone as (2 * (a + b) + 2) >> 2; when the pixel data is done exactly
\* H rows of W pixels have been read.
RowsReducedInOrder ==
    /\ pc \in {"loop", "read1", "convert", "write", "oddRead", "oddConvert", "oddWrite"} =>
          /\ output.body = IdField \o ExpectedRows(RowsWritten)
          /\ inPos = inHeader.idLength + RowsRead * inHeader.width * numComponents
    /\ PixelsDone => output.body = IdField \o ExpectedRows(OutRows)
    /\ (pc \in {"trailer", "copyByte"} \/ (pc = "exited" /\ exitStatus = ok)) =>
          /\ inPos >= PixelEnd(inHeader)
          /\ SubSeq(output.body, 1, OutputEnd(inHeader, 0))
                = IdField \o ExpectedRows(OutRows)

\* A 3x3 image of 2 components has gone through: one row pair and the odd row.
RowsReducedWitness ==
    /\ PixelsDone
    /\ inHeader.width = 3 /\ inHeader.height = 3 /\ numComponents = 2
    /\ inHeader.idLength = 2
    /\ Len(output.body) = 2 + 2 * 2 * 2

\* The row holds row r of the input image: its W pixels, and for odd W a
\* last pixel equal to pixel W - 1.
HoldsRow(row, r) ==
    /\ Len(row) = 2 * OutColumns
    /\ \A col \in 1..inHeader.width : \A c \in 1..numComponents :
          row[col][c] = InPixel(r, col - 1, c)
    /\ inHeader.width % 2 = 1 => row[inHeader.width + 1] = row[inHeader.width]
    /\ inHeader.width % 2 = 0 => Len(row) = inHeader.width

\* For odd W the last output pixel is reduced from the last column of rows
\* rA and rB, each taken twice.
LastPixelFromLastColumn(rA, rB) ==
    /\ Len(outRow) = OutColumns
    /\ inHeader.width % 2 = 1 =>
          \A c \in 1..numComponents :
              outRow[OutColumns][c] =
                  (2 * InPixel(rA, inHeader.width - 1, c)
                   + 2 * InPixel(rB, inHeader.width - 1, c) + 2) \div 4

\* C7: after each readRow the row holds the W pixels read and, for odd W, the
\* last of them again in the padding slot, also when the row is reused; every
\* output row has ceil(W/2) pixels, the last of which, for odd W, comes from
\* the doubled last column.
ReadRowPadsOddWidth ==
    /\ pc = "read1" => HoldsRow(inRow0, RowsRead - 1)
    /\ pc \in {"convert", "write"} =>
          HoldsRow(inRow0, RowsRead - 2) /\ HoldsRow(inRow1, RowsRead - 1)
    /\ pc \in {"oddConvert", "oddWrite"} => HoldsRow(inRow0, inHeader.height - 1)
    /\ pc = "write" => LastPixelFromLastColumn(RowsRead - 2, RowsRead - 1)
    /\ pc = "oddWrite" =>
          LastPixelFromLastColumn(inHeader.height - 1, inHeader.height - 1)

\* The odd row of a 3x3 image has been read into the reused inRow0 and
\* reduced, and its last pixel differs from the one of the row read before.
ReadRowWitness ==
    /\ pc = "oddWrite"
    /\ inHeader.width = 3 /\ inHeader.height = 3
    /\ inRow0[4] = inRow0[3]
    /\ inRow0[3] # objectAt(input.body, inHeader.idLength + 2 * numComponents, numComponents)

----------------------------------------------------------------------------
\* Properties of the trailer copy and of the end of the run.

\* C3 as stated: after a run that succeeds without a failed read or write,
\* the output's bytes after its pixel data are the input's bytes after its
\* pixel data.
TrailerCopiedVerbatim ==
    (pc = "exited" /\ exitStatus = ok /\ ~inErr /\ ~outErr) =>
        SubSeq(output.body, OutputEnd(inHeader, 0) + 1, Len(output.body))
            = SubSeq(input.body, PixelEnd(inHeader) + 1, Len(input.body))

\* C8 as stated: a run in which a write to the output failed ends with
\* BadOutputFile (exit code 5), not with exit code 0.
WriteFailureIsFatal ==
    (pc = "exited" /\ outErr) => exitStatus = 5

\* C9 as stated: when the run ends, every handle that was opened has been
\* closed by the program.
HandlesClosedByProgram ==
    pc = "exited" => \A h \in DOMAIN handles : handles[h] \in {"none", "fclosed"}

\* C9: at most one input and one output handle are open, both from their
\* fopen to the end of the run; the program closes neither, and each is
\* closed by the end of the process, on every path to it.
HandlesReclaimedAtExit ==
    /\ \A h \in DOMAIN handles : handles[h] # "fclosed"
    /\ pc = "exited" => \A h \in DOMAIN handles : handles[h] \in {"none", "reclaimed"}
    /\ pc # "exited" => \A h \in DOMAIN handles : handles[h] \in {"none", "open"}
    /\ pc \notin {"openIn", "exited"} => handles.in = "open"
    /\ pc \notin {"openIn", "openOut", "exited"} => handles.out = "open"
    /\ (pc = "exited" /\ exitStatus \notin {badInputFile, badOutputFile}) =>
          handles.in = "reclaimed" /\ handles.out = "reclaimed"

\* The output could not be opened after the input was: the run has ended
\* with the input handle closed by the end of the process.
HandlesWitness ==
    /\ pc = "exited" /\ exitStatus = badOutputFile
    /\ handles.in = "reclaimed" /\ handles.out = "none"

\* C10 as stated: every run ends, with exit 0 or a fatal error.
EveryRunEnds == <>(pc = "exited")

====
